---- MODULE Spec2Model ----
(***************************************************************************)
(* A model of src/main.py, the smart-farm dashboard.  The file holds two   *)
(* script variants one after the other:                                    *)
(*   lines   1-127  the "fallback" variant: load_env_data that synthesises *)
(*                  a dummy table for a missing CSV, and the growth-index  *)
(*                  simulation (calculate_growth_index behind 3 sliders);  *)
(*   lines 128-325  the "strict" variant: find_file, load_env_data and     *)
(*                  load_growth_data that stop the run on a missing file,  *)
(*                  merge_env, merge_growth and the summary loop.          *)
(*                                                                         *)
(* Numbers.  Python floats are modelled in fixed point:                    *)
(*   - slider values ec and ph in tenths (the slider step is 0.1), the     *)
(*     growth index in tenths of a point (0.8 = 8/10, so every term of    *)
(*     the score is a whole number of tenths);                             *)
(*   - EC samples of an environment table in hundredths; a mean is kept as *)
(*     the exact fraction sum/count and round(x, 2) yields hundredths.     *)
(* Strings.  A file name is the sequence of its Unicode code points; NFC    *)
(* and NFD are the Hangul composition and decomposition of the standard    *)
(* (the names of the script are Hangul syllables and ASCII).               *)
(***************************************************************************)
EXTENDS Integers, Sequences, FiniteSets, TLC

VARIABLES
    \* the simulation sliders and the index shown (lines 105-112)
    humidity, ec, ph, growth_index,
    \* a directory listing, a target name and find_file's results (156-165)
    directory, target, found,
    \* the strict script's run (lines 194-256): where it stands, what it has
    \* loaded and derived, the exception that ended it
    pc, env_data, growth_data, env_all, growth_all, summary, total, exc,
    \* the process and its files: which script variant runs, the CSV files
    \* and the workbook on disk, the st.cache_data entries of the two loaders,
    \* the files the current run has read, the st.error messages it has shown,
    \* the number of file changes so far, and what load_env_data returned in
    \* the previous execution of the script in a fresh process
    variant, disk, xlsx, cache, storage_reads, errors, changes, prev_env

scoreVars == <<humidity, ec, ph, growth_index>>
findVars  == <<directory, target, found>>
runVars   == <<pc, env_data, growth_data, env_all, growth_all, summary, total, exc>>
procVars  == <<variant, disk, xlsx, cache, storage_reads, errors, changes, prev_env>>
vars == <<scoreVars, findVars, runVars, procVars>>


(***************************************************************************)
(* Growth-index simulation: src/main.py lines 40-51 and 105-112.           *)
(***************************************************************************)
Scale == 10              \* fixed-point factor: one unit is 0.1

ideal_h  == 60           \* ideal_h  = 60
ideal_ec == 20           \* ideal_ec = 2.0, in tenths
ideal_ph == 60           \* ideal_ph = 6.0, in tenths

weight_h  == 8           \* 0.8 per humidity point, in tenths of a score point
weight_ec == 20          \* 20 per EC unit
weight_ph == 15          \* 15 per pH unit

score_top == 100         \* the 100 the score starts from and is capped at

humidity_min == 0        \* st.slider("습도 (%)", 0, 100, 60)
humidity_max == 100
ec_min == 0              \* st.slider("EC (mS/cm)", 0.0, 5.0, 2.0, 0.1), in tenths
ec_max == 50
ph_min == 40             \* st.slider("pH", 4.0, 8.0, 6.0, 0.1), in tenths
ph_max == 80

abs(x) == IF x < 0 THEN -x ELSE x
max(a, b) == IF b > a THEN b ELSE a
min(a, b) == IF b < a THEN b ELSE a

\* A slip that returns the raw score, without the final clamp.
calculate_growth_index_unclamped(h, e, p) ==
    score_top * Scale
        - abs(h - ideal_h) * weight_h
        - abs(e - ideal_ec) * weight_ec
        - abs(p - ideal_ph) * weight_ph

\* A slip that penalises only humidity below the ideal (no abs on the
\* humidity term); the clamp is kept.
calculate_growth_index_signed(h, e, p) ==
    LET score == score_top * Scale
                    - (ideal_h - h) * weight_h
                    - abs(e - ideal_ec) * weight_ec
                    - abs(p - ideal_ph) * weight_ph
    IN  max(0, min(score_top * Scale, score))

\* calculate_growth_index(humidity, ec, ph): h in percent, e and p in
\* tenths; the result in tenths of a point.
\*   |h - 60| * 0.8        = |h - 60| * 8   tenths
\*   |e/10 - 2.0| * 20     = |e - 20| * 20  tenths
\*   |p/10 - 6.0| * 15     = |p - 60| * 15  tenths
calculate_growth_index(h, e, p) ==
    LET score == score_top * Scale
                    - abs(h - ideal_h) * weight_h
                    - abs(e - ideal_ec) * weight_ec
                    - abs(p - ideal_ph) * weight_ph
    IN  max(0, min(score_top * Scale, score))

\* The sliders at their defaults and the index computed from them.
ScoreInit ==
    /\ humidity = ideal_h
    /\ ec = ideal_ec
    /\ ph = ideal_ph
    /\ growth_index = calculate_growth_index(ideal_h, ideal_ec, ideal_ph)

\* One step of a slider (an arrow key; a drag is a run of steps).  The
\* script reruns and line 109 recomputes the index from the three values.
MoveHumidity ==
    /\ \E h \in {humidity - 1, humidity + 1} :
        /\ h \in humidity_min .. humidity_max
        /\ humidity' = h
        /\ growth_index' = calculate_growth_index(h, ec, ph)
    /\ UNCHANGED <<ec, ph, findVars, runVars, procVars>>

MoveEc ==
    /\ \E e \in {ec - 1, ec + 1} :
        /\ e \in ec_min .. ec_max
        /\ ec' = e
        /\ growth_index' = calculate_growth_index(humidity, e, ph)
    /\ UNCHANGED <<humidity, ph, findVars, runVars, procVars>>

MovePh ==
    /\ \E p \in {ph - 1, ph + 1} :
        /\ p \in ph_min .. ph_max
        /\ ph' = p
        /\ growth_index' = calculate_growth_index(humidity, ec, p)
    /\ UNCHANGED <<humidity, ec, findVars, runVars, procVars>>

(***************************************************************************)
(* Unicode-safe file lookup: src/main.py lines 156-165.                    *)
(***************************************************************************)
MaxNameLen == 2          \* longest decomposed name of the lookup model
MaxDirEntries == 1       \* most entries of the directory of the lookup model

\* Hangul syllable arithmetic of the Unicode standard (section 3.12), which
\* unicodedata.normalize applies to the Korean file names of the script.
SBase == 44032           \* U+AC00, the first precomposed syllable
LBase == 4352            \* U+1100, the first leading consonant
VBase == 4449            \* U+1161, the first vowel
TBase == 4519            \* U+11A7, one before the first trailing consonant
LCount == 19
VCount == 21
TCount == 28
NCount == VCount * TCount
SCount == LCount * NCount

IsSyllable(c) == c >= SBase /\ c < SBase + SCount
IsL(c) == c >= LBase /\ c < LBase + LCount
IsV(c) == c >= VBase /\ c < VBase + VCount
IsT(c) == c > TBase /\ c < TBase + TCount
IsLV(c) == IsSyllable(c) /\ (c - SBase) % TCount = 0

\* The canonical decomposition of one code point: a syllable into its two
\* or three jamo, anything else (ASCII here) into itself.
Decompose(c) ==
    IF IsSyllable(c)
    THEN LET si == c - SBase
             l == LBase + (si \div NCount)
             v == VBase + ((si % NCount) \div TCount)
             t == TBase + (si % TCount)
         IN  IF t = TBase THEN <<l, v>> ELSE <<l, v, t>>
    ELSE <<c>>

RECURSIVE NFD(_)
\* unicodedata.normalize("NFD", s)
NFD(s) == IF s = <<>> THEN <<>> ELSE Decompose(Head(s)) \o NFD(Tail(s))

RECURSIVE ComposeJamo(_, _)
\* Canonical composition of a decomposed string, left to right: a leading
\* consonant and a vowel make an LV syllable, an LV syllable and a trailing
\* consonant an LVT syllable.  done is the part already composed.
ComposeJamo(done, rest) ==
    IF rest = <<>> THEN done
    ELSE LET ch == Head(rest)
             n == Len(done)
         IN  IF n > 0 /\ IsL(done[n]) /\ IsV(ch)
             THEN ComposeJamo(
                    [done EXCEPT ![n] =
                        SBase + ((done[n] - LBase) * VCount + (ch - VBase)) * TCount],
                    Tail(rest))
             ELSE IF n > 0 /\ IsLV(done[n]) /\ IsT(ch)
             THEN ComposeJamo([done EXCEPT ![n] = done[n] + (ch - TBase)],
                              Tail(rest))
             ELSE ComposeJamo(Append(done, ch), Tail(rest))

\* unicodedata.normalize("NFC", s)
NFC(s) == ComposeJamo(<<>>, NFD(s))

NoEntry == 0             \* find_file's "return None": no position of the listing

RECURSIVE find_file_from(_, _, _, _)
\* The loop of find_file from entry i on: the first entry whose NFC form
\* equals t_nfc or whose NFD form equals t_nfd.
find_file_from(dir, t_nfc, t_nfd, i) ==
    IF i > Len(dir) THEN NoEntry
    ELSE IF NFC(dir[i]) = t_nfc \/ NFD(dir[i]) = t_nfd THEN i
    ELSE find_file_from(dir, t_nfc, t_nfd, i + 1)

\* A lookup that compares the names as stored, without normalising.
find_file_raw(dir, t) ==
    IF \E i \in 1 .. Len(dir) : dir[i] = t
    THEN CHOOSE i \in 1 .. Len(dir) :
            dir[i] = t /\ \A j \in 1 .. (i - 1) : dir[j] # t
    ELSE NoEntry

\* find_file(directory, target): the position in the listing of the entry
\* returned (the entry is dir[find_file(dir, t)]), or NoEntry.
find_file(dir, t) == find_file_from(dir, NFC(t), NFD(t), 1)

\* The code points of the lookup model: the jamo U+1103, U+1169, U+11BC and
\* the syllables U+B3C4 (of the first two) and U+B3D9 (of all three), the
\* first syllable of the school name of line 173.
HangulPoints == {4355, 4457, 4540, 46020, 46041}

\* The names of the lookup model: strings of at most MaxNameLen jamo once
\* decomposed, in any mix of composed and decomposed code points.
Names ==
    { s \in UNION { [1 .. n -> HangulPoints] : n \in 1 .. MaxNameLen } :
        Len(NFD(s)) <= MaxNameLen }

\* The forms a caller may pass a target name in.
Forms == {"raw", "nfc", "nfd"}
InForm(form, t) ==
    CASE form = "nfc" -> NFC(t)
      [] form = "nfd" -> NFD(t)
      [] OTHER        -> t

Range(s) == { s[i] : i \in 1 .. Len(s) }
InsertAt(s, i, x) == SubSeq(s, 1, i - 1) \o <<x>> \o SubSeq(s, i, Len(s))

\* An empty directory, a target name, and nothing looked up yet.
FindInit ==
    /\ directory = <<>>
    /\ target \in Names
    /\ found = [f \in {} |-> NoEntry]

FindIdle ==
    /\ directory = <<>>
    /\ target = <<>>
    /\ found = [f \in {} |-> NoEntry]

\* A file appears in the directory, anywhere in its iteration order
\* (iterdir promises no order).  Earlier lookups are of the old listing.
CreateFile ==
    /\ Len(directory) < MaxDirEntries
    /\ \E name \in Names \ Range(directory), i \in 1 .. (Len(directory) + 1) :
        directory' = InsertAt(directory, i, name)
    /\ found' = [f \in {} |-> NoEntry]
    /\ UNCHANGED <<target, scoreVars, runVars, procVars>>

\* find_file(directory, t) with the target passed in one of its forms.
Lookup ==
    /\ \E form \in Forms \ DOMAIN found :
        found' = [f \in DOMAIN found \cup {form} |->
                    IF f = form THEN find_file(directory, InForm(form, target))
                    ELSE found[f]]
    /\ UNCHANGED <<directory, target, scoreVars, runVars, procVars>>

(***************************************************************************)
(* Tables.  A DataFrame is its column names and its rows; a row maps each  *)
(* column name to a value.  A float that may be NaN (a mean, a rounded     *)
(* mean) is a record: Num(v) with v in hundredths, or NaN.                 *)
(***************************************************************************)
MaxRows == 2             \* most rows of a growth table
MaxSamples == 2          \* most ec samples of an environment table

DataFrame(cols, rows) == [cols |-> cols, rows |-> rows]
Unset == [unset |-> TRUE]          \* a name the script has not bound yet

Num(v) == [nan |-> FALSE, v |-> v]
NaN == [nan |-> TRUE, v |-> 0]

\* df[col]: the column as a sequence.
Column(df, col) == [i \in 1 .. Len(df.rows) |-> df.rows[i][col]]

\* df[col] = val: the column is added (or overwritten) with one value in
\* every row.
setitem(df, col, val) ==
    DataFrame(
        IF \E i \in 1 .. Len(df.cols) : df.cols[i] = col
            THEN df.cols ELSE Append(df.cols, col),
        [i \in 1 .. Len(df.rows) |-> (col :> val) @@ df.rows[i]])

RECURSIVE Sum(_)
Sum(series) == IF series = <<>> THEN 0 ELSE Head(series) + Sum(Tail(series))

\* Series.mean(): the exact fraction sum/count; count 0 is pandas' NaN.
mean(series) == [sum |-> Sum(series), count |-> Len(series)]

\* round(x, 1) in place of round(x, 2): the nearest tenth.
round1(m) ==
    IF m.count = 0 THEN NaN
    ELSE LET q == m.sum \div (10 * m.count)
             r == m.sum - q * 10 * m.count
         IN  IF 2 * r > 10 * m.count \/ (2 * r = 10 * m.count /\ q % 2 = 1)
             THEN Num(10 * (q + 1)) ELSE Num(10 * q)

\* round(x, 2) of a mean of hundredths: the nearest hundredth, a tie going
\* to the even one (Python and NumPy round half to even; a binary float
\* that prints as a tie may lie on either side of it).  NaN stays NaN.
round2(m) ==
    IF m.count = 0 THEN NaN
    ELSE LET q == m.sum \div m.count
             r == m.sum - q * m.count
         IN  IF 2 * r > m.count \/ (2 * r = m.count /\ q % 2 = 1)
             THEN Num(q + 1) ELSE Num(q)

\* tmp = df: the name bound to the same object, no copy made.
DataFrame_alias(df) == [frame |-> df, shares |-> TRUE]

\* df.copy(): an equal frame that shares nothing with df.
DataFrame_copy(df) == [frame |-> df, shares |-> FALSE]

RECURSIVE concat_rows(_)
concat_rows(frames) ==
    IF frames = <<>> THEN <<>>
    ELSE Head(frames).rows \o concat_rows(Tail(frames))

\* "return tmp" in place of the concat: the last school's frame alone.
concat_last(frames) ==
    IF frames = <<>> THEN [exc |-> "ValueError", out |-> Unset]
    ELSE [exc |-> "none", out |-> frames[Len(frames)]]

\* pd.concat(frames, ignore_index=True): the rows of the frames in order;
\* "ValueError: No objects to concatenate" for an empty list.  (The frames
\* of the model all have the columns of the first.)
concat(frames) ==
    IF frames = <<>> THEN [exc |-> "ValueError", out |-> Unset]
    ELSE [exc |-> "none",
          out |-> DataFrame(Head(frames).cols, concat_rows(frames))]

\* The keys a dict of the model may have, in the order a dict holding them
\* iterates (the sheet order of the workbook, the school order of line 173).
KeyOrder == <<"Dongsan", "Songdo", "Ara", "Haneul", "Sheet1">>
items(dict) == SelectSeq(KeyOrder, LAMBDA k : k \in DOMAIN dict)

RECURSIVE merge_growth_loop(_, _, _, _, _)
\* The loop of merge_growth from the i-th school on.  growth_dict is the
\* caller's dict as the loop has left it so far, out the frames appended.
merge_growth_loop(growth_dict, env_dict, keys, out, i) ==
    IF i > Len(keys)
    THEN [exc |-> "none", out |-> out, growth_dict |-> growth_dict]
    ELSE LET school == keys[i]
             tmp == DataFrame_copy(growth_dict[school])
             tmp1 == setitem(tmp.frame, "school", school)
             g1 == IF tmp.shares THEN [growth_dict EXCEPT ![school] = tmp1]
                   ELSE growth_dict
         IN  IF school \notin DOMAIN env_dict
             THEN [exc |-> "KeyError", out |-> out, growth_dict |-> g1]
             ELSE LET tmp2 == setitem(tmp1, "EC",
                                 round2(mean(Column(env_dict[school], "ec"))))
                      g2 == IF tmp.shares
                            THEN [growth_dict EXCEPT ![school] = tmp2]
                            ELSE growth_dict
                  IN  merge_growth_loop(g2, env_dict, keys,
                                        Append(out, tmp2), i + 1)

\* merge_growth(growth_dict, env_dict): the exception raised ("none" when
\* it returns), the table returned, and the caller's growth_dict afterwards.
merge_growth(growth_dict, env_dict) ==
    LET loop == merge_growth_loop(growth_dict, env_dict, items(growth_dict),
                                  <<>>, 1)
        cat == concat(loop.out)
    IN  IF loop.exc # "none"
        THEN [exc |-> loop.exc, out |-> Unset, growth_dict |-> loop.growth_dict]
        ELSE [exc |-> cat.exc, out |-> cat.out, growth_dict |-> loop.growth_dict]

\* The summary loop of lines 240-248: one row per school of growth_data, and
\* the total; KeyError for a school env_data lacks.
summarize(growth_dict, env_dict) ==
    LET keys == items(growth_dict)
    IN  IF \E i \in 1 .. Len(keys) : keys[i] \notin DOMAIN env_dict
        THEN [exc |-> "KeyError", summary |-> Unset, total |-> 0]
        ELSE [exc |-> "none",
              summary |-> [i \in 1 .. Len(keys) |->
                  [school |-> keys[i],
                   ec_target |-> round2(mean(Column(env_dict[keys[i]], "ec"))),
                   count |-> Len(growth_dict[keys[i]].rows)]],
              total |-> Sum([i \in 1 .. Len(keys) |->
                                Len(growth_dict[keys[i]].rows)])]

\* Line 220: growth_all = merge_growth(growth_data, env_data).  An exception
\* ends the run.
MergeGrowth ==
    /\ pc = "merge_growth"
    /\ \E r \in {merge_growth(growth_data, env_data)} :
           /\ growth_data' = r.growth_dict
           /\ growth_all' = r.out
           /\ exc' = r.exc
           /\ pc' = IF r.exc = "none" THEN "summary" ELSE "crashed"
    /\ UNCHANGED <<env_data, env_all, summary, total,
                   scoreVars, findVars, procVars>>

\* Lines 240-253: the summary table and the total.
Summary ==
    /\ pc = "summary"
    /\ \E r \in {summarize(growth_data, env_data)} :
           /\ summary' = r.summary
           /\ total' = r.total
           /\ exc' = r.exc
           /\ pc' = IF r.exc = "none" THEN "done" ELSE "crashed"
    /\ UNCHANGED <<env_data, growth_data, env_all, growth_all,
                   scoreVars, findVars, procVars>>

(***************************************************************************)
(* Files, the two loaders and their caches: lines 16-34 and 150-196.       *)
(***************************************************************************)
MaxChanges == 2          \* most file changes in one behaviour
MaxDraws == 2            \* distinct outcomes of one np.random.uniform call
Periods == 30            \* periods=30, the rows of the dummy table

StrictSchools == <<"Dongsan", "Songdo", "Ara", "Haneul">>
FallbackSchools == <<"Dongsan", "Daegeon", "Jeil">>
Schools(v) == IF v = "strict" THEN StrictSchools ELSE FallbackSchools
SchoolSet(v) == { Schools(v)[i] : i \in 1 .. Len(Schools(v)) }

\* The school names as the source spells them (composed syllables).
SchoolName(school) ==
    CASE school = "Dongsan" -> <<46041, 49328, 44256>>
      [] school = "Songdo"  -> <<49569, 46020, 44256>>
      [] school = "Ara"     -> <<50500, 46972, 44256>>
      [] school = "Haneul"  -> <<54616, 45720, 44256>>
      [] school = "Daegeon" -> <<45824, 44148, 44256>>
      [] school = "Jeil"    -> <<51228, 51068, 44256>>

\* f"{school}_환경데이터.csv"
EnvFileName(school) ==
    SchoolName(school)
        \o <<95, 54872, 44221, 45936, 51060, 53552, 46, 99, 115, 118>>

\* "4개교_생육결과데이터.xlsx"
WorkbookName ==
    <<52, 44060, 44368, 95, 49373, 50977, 44208, 44284, 45936, 51060, 53552,
      46, 120, 108, 115, 120>>

\* A file on disk: absent, or present under a name stored composed ("nfc")
\* or decomposed ("nfd").  A CSV holds version ver of its data, a workbook
\* a number of rows for each of its sheets.
Missing == [present |-> FALSE]
CsvFile(form, ver) == [present |-> TRUE, form |-> form, ver |-> ver]
Workbook(form, sheets) == [present |-> TRUE, form |-> form, sheets |-> sheets]

RECURSIVE csv_entries(_, _, _)
csv_entries(schools, d, i) ==
    IF i > Len(schools) THEN <<>>
    ELSE (IF d[schools[i]].present
          THEN << [name |-> InForm(d[schools[i]].form, EnvFileName(schools[i])),
                   key |-> schools[i]] >>
          ELSE <<>>)
         \o csv_entries(schools, d, i + 1)

\* directory.iterdir(): the entries of the data directory, each with its
\* name and the file it is.
iterdir(v, d, x) ==
    csv_entries(Schools(v), d, 1)
        \o (IF x.present
            THEN << [name |-> InForm(x.form, WorkbookName), key |-> "xlsx"] >>
            ELSE <<>>)
EntryNames(listing) == [i \in 1 .. Len(listing) |-> listing[i].name]

\* Version ver of a school's data: ver samples 1.00, 1.01, ...
EcSeries(ver) == [i \in 1 .. ver |-> 99 + i]

\* pd.read_csv of a CSV of the strict variant (the ec column; the other
\* columns play no part) and of the fallback variant (온도 and 습도).
read_csv(f) ==
    DataFrame(<<"ec">>, [i \in 1 .. f.ver |-> ("ec" :> EcSeries(f.ver)[i])])
read_csv_fallback(f) ==
    DataFrame(<<"date", "temp", "hum">>,
        [i \in 1 .. f.ver |->
            ("date" :> i) @@ ("temp" :> 19 + f.ver) @@ ("hum" :> 59 + f.ver)])

\* pd.read_excel of one sheet of n rows.
read_excel(n) ==
    DataFrame(<<"weight">>, [i \in 1 .. n |-> ("weight" :> i)])

\* The dummy table of lines 27-31.  draw.temp and draw.hum name the random
\* vectors the two np.random.uniform calls returned; row i holds their
\* i-th components.
dummy_table(draw) ==
    DataFrame(<<"date", "temp", "hum">>,
        [i \in 1 .. Periods |->
            ("date" :> i) @@ ("temp" :> <<draw.temp, i>>)
                          @@ ("hum" :> <<draw.hum, i>>)])
Draws == [temp : 1 .. MaxDraws, hum : 1 .. MaxDraws]

RECURSIVE fallback_loop(_, _, _, _, _)
fallback_loop(d, draws, data, reads, i) ==
    IF i > Len(FallbackSchools) THEN [data |-> data, reads |-> reads]
    ELSE LET school == FallbackSchools[i]
             \* os.path.exists(filename): an entry of exactly that name
             exists == d[school].present
                        /\ InForm(d[school].form, EnvFileName(school))
                              = EnvFileName(school)
         IN  IF exists
             THEN fallback_loop(d, draws,
                    (school :> read_csv_fallback(d[school])) @@ data,
                    reads \cup {school}, i + 1)
             ELSE fallback_loop(d, draws,
                    (school :> dummy_table(draws[school])) @@ data,
                    reads, i + 1)

\* load_env_data of lines 17-34: the dict returned and the files read.
load_env_data_fallback(d, draws) ==
    fallback_loop(d, draws, <<>>, {}, 1)

RECURSIVE strict_loop(_, _, _, _, _, _)
\* The loop of the strict load_env_data from the i-th school on; names are
\* the names of the listing, on_missing is what the body does when
\* find_file returns None.
strict_loop(d, listing, env, reads, i, on_missing) ==
    IF i > Len(StrictSchools)
    THEN [stopped |-> FALSE, errors |-> <<>>, env |-> env, reads |-> reads]
    ELSE LET school == StrictSchools[i]
             found_at(file) ==
                IF file = NoEntry
                THEN IF on_missing = "stop"
                     THEN [stopped |-> TRUE, errors |-> <<<<"env", school>>>>,
                           env |-> Unset, reads |-> reads]
                     ELSE LET rest == strict_loop(d, listing, env, reads,
                                                  i + 1, on_missing)
                          IN  [stopped |-> rest.stopped,
                               errors |-> <<<<"env", school>>>> \o rest.errors,
                               env |-> rest.env, reads |-> rest.reads]
                ELSE strict_loop(d, listing,
                        (school :> setitem(read_csv(d[listing[file].key]),
                                           "school", school)) @@ env,
                        reads \cup {listing[file].key}, i + 1, on_missing)
         IN  found_at(find_file(EntryNames(listing), EnvFileName(school)))

\* "continue" in place of st.stop(): the school is reported and skipped.
load_env_data_skip(d, listing) ==
    strict_loop(d, listing, <<>>, {}, 1, "skip")

\* load_env_data of lines 171-182: whether st.stop() ended the run, the
\* st.error messages, the dict returned and the files read.
load_env_data(d, listing) ==
    strict_loop(d, listing, <<>>, {}, 1, "stop")

\* load_growth_data of lines 185-192.
load_growth_data(x, listing) ==
    LET file == find_file(EntryNames(listing), WorkbookName)
    IN  IF file = NoEntry
        THEN [stopped |-> TRUE, errors |-> <<<<"xlsx", "xlsx">>>>,
              growth |-> Unset, reads |-> {}]
        ELSE [stopped |-> FALSE, errors |-> <<>>,
              growth |-> [sh \in DOMAIN x.sheets |-> read_excel(x.sheets[sh])],
              reads |-> {"xlsx"}]

\* A function that is not memoized: every call runs its body.
cache_never(entry) == [hit |-> FALSE, value |-> Unset]

\* @st.cache_data on a function of no arguments: the entry, once stored,
\* answers every later call of the process.
cache_get(entry) == [hit |-> entry # Unset, value |-> entry]

EmptyCache == [env |-> Unset, growth |-> Unset]

\* Line 59: env_data = load_env_data() of the fallback variant.
LoadEnvFallback ==
    /\ variant = "fallback"
    /\ pc = "load_env"
    /\ IF cache_get(cache.env).hit
       THEN /\ env_data' = cache_get(cache.env).value
            /\ UNCHANGED <<cache, storage_reads>>
       ELSE \E draws \in [SchoolSet("fallback") -> Draws] :
              \E r \in {load_env_data_fallback(disk, draws)} :
                  /\ env_data' = r.data
                  /\ cache' = [cache EXCEPT !.env = r.data]
                  /\ storage_reads' = storage_reads \cup r.reads
    /\ pc' = "plot"
    /\ UNCHANGED <<growth_data, env_all, growth_all, summary, total, exc,
                   variant, disk, xlsx, errors, changes, prev_env,
                   scoreVars, findVars>>

\* Line 76: plt.subplots(), with no plt imported or defined in the file.
Plot ==
    /\ variant = "fallback"
    /\ pc = "plot"
    /\ pc' = "crashed"
    /\ exc' = "NameError"
    /\ UNCHANGED <<env_data, growth_data, env_all, growth_all, summary, total,
                   procVars, scoreVars, findVars>>

\* Line 195: env_data = load_env_data() of the strict variant.
LoadEnv ==
    /\ variant = "strict"
    /\ pc = "load_env"
    /\ IF cache_get(cache.env).hit
       THEN /\ env_data' = cache_get(cache.env).value
            /\ pc' = "load_growth"
            /\ UNCHANGED <<cache, storage_reads, errors>>
       ELSE \E r \in {load_env_data(disk, iterdir(variant, disk, xlsx))} :
                /\ storage_reads' = storage_reads \cup r.reads
                /\ errors' = errors \o r.errors
                /\ IF r.stopped
                   THEN /\ pc' = "stopped"
                        /\ UNCHANGED <<env_data, cache>>
                   ELSE /\ pc' = "load_growth"
                        /\ env_data' = r.env
                        /\ cache' = [cache EXCEPT !.env = r.env]
    /\ UNCHANGED <<growth_data, env_all, growth_all, summary, total, exc,
                   variant, disk, xlsx, changes, prev_env,
                   scoreVars, findVars>>

\* Line 196: growth_data = load_growth_data().
LoadGrowth ==
    /\ pc = "load_growth"
    /\ IF cache_get(cache.growth).hit
       THEN /\ growth_data' = cache_get(cache.growth).value
            /\ pc' = "merge_env"
            /\ UNCHANGED <<cache, storage_reads, errors>>
       ELSE \E r \in {load_growth_data(xlsx, iterdir(variant, disk, xlsx))} :
                /\ storage_reads' = storage_reads \cup r.reads
                /\ errors' = errors \o r.errors
                /\ IF r.stopped
                   THEN /\ pc' = "stopped"
                        /\ UNCHANGED <<growth_data, cache>>
                   ELSE /\ pc' = "merge_env"
                        /\ growth_data' = r.growth
                        /\ cache' = [cache EXCEPT !.growth = r.growth]
    /\ UNCHANGED <<env_data, env_all, growth_all, summary, total, exc,
                   variant, disk, xlsx, changes, prev_env,
                   scoreVars, findVars>>

\* merge_env(env_dict) of lines 202-203.
merge_env(env_dict) ==
    concat([i \in 1 .. Len(items(env_dict)) |-> env_dict[items(env_dict)[i]]])

\* Line 205: env_all = merge_env(env_data).
MergeEnv ==
    /\ pc = "merge_env"
    /\ \E r \in {merge_env(env_data)} :
        /\ env_all' = r.out
        /\ exc' = r.exc
        /\ pc' = IF r.exc = "none" THEN "merge_growth" ELSE "crashed"
    /\ UNCHANGED <<env_data, growth_data, growth_all, summary, total,
                   procVars, scoreVars, findVars>>

RunEnded == pc \in {"done", "stopped", "crashed"}

\* The names a run binds, before it has bound them.
RunStart ==
    /\ pc' = "load_env"
    /\ env_data' = Unset
    /\ growth_data' = Unset
    /\ env_all' = Unset
    /\ growth_all' = Unset
    /\ summary' = Unset
    /\ total' = 0
    /\ exc' = "none"
    /\ storage_reads' = {}
    /\ errors' = <<>>

\* A widget interaction: the script runs again from the top in the same
\* process, the st.cache_data entries kept.
Rerun ==
    /\ RunEnded
    /\ RunStart
    /\ UNCHANGED <<variant, disk, xlsx, cache, changes, prev_env,
                   scoreVars, findVars>>

\* The server is started anew: an independent execution with empty caches.
Restart ==
    /\ RunEnded
    /\ RunStart
    /\ prev_env' = env_data
    /\ cache' = EmptyCache
    /\ UNCHANGED <<variant, disk, xlsx, changes, scoreVars, findVars>>

\* The workbooks of the model: MaxRows or fewer rows on every sheet, the
\* sheets being the four schools, the four schools and a stray sheet, or
\* one school alone.
SheetSets ==
    { SchoolSet("strict"), SchoolSet("strict") \cup {"Sheet1"}, {"Dongsan"} }
Workbooks ==
    UNION { { [sh \in S |-> n] : n \in 1 .. MaxRows } : S \in SheetSets }

\* Somebody outside the process rewrites, deletes or creates a data file.
ChangeFile ==
    /\ changes < MaxChanges
    /\ changes' = changes + 1
    /\ \/ \E school \in SchoolSet(variant) :
            /\ disk' = [disk EXCEPT ![school] =
                          IF disk[school].present
                          THEN CsvFile(disk[school].form, disk[school].ver + 1)
                          ELSE CsvFile("nfc", 1)]
            /\ UNCHANGED xlsx
       \/ \E school \in SchoolSet(variant) :
            /\ disk[school].present
            /\ disk' = [disk EXCEPT ![school] = Missing]
            /\ UNCHANGED xlsx
       \/ /\ variant = "strict"
          /\ \E w \in Workbooks :
                /\ xlsx # Workbook("nfc", w)
                /\ xlsx' = Workbook("nfc", w)
          /\ UNCHANGED disk
       \/ /\ xlsx.present
          /\ xlsx' = Missing
          /\ UNCHANGED disk
    /\ UNCHANGED <<variant, cache, storage_reads, errors, prev_env,
                   runVars, scoreVars, findVars>>

ProcIdle ==
    /\ variant = "none"
    /\ disk = <<>>
    /\ xlsx = Missing
    /\ cache = EmptyCache
    /\ storage_reads = {}
    /\ errors = <<>>
    /\ changes = 0
    /\ prev_env = Unset

\* A run about to start in a fresh process.
RunInit ==
    /\ pc = "load_env"
    /\ env_data = Unset
    /\ growth_data = Unset
    /\ env_all = Unset
    /\ growth_all = Unset
    /\ summary = Unset
    /\ total = 0
    /\ exc = "none"
    /\ cache = EmptyCache
    /\ storage_reads = {}
    /\ errors = <<>>
    /\ changes = 0
    /\ prev_env = Unset

\* The strict variant over any data directory: each CSV absent or present
\* under a composed or a decomposed name, and so the workbook.
StrictInit ==
    /\ RunInit
    /\ variant = "strict"
    /\ disk \in [SchoolSet("strict") ->
                    {Missing} \cup { CsvFile(f, 1) : f \in {"nfc", "nfd"} }]
    /\ xlsx \in {Missing} \cup { Workbook(f, w) : f \in {"nfc", "nfd"},
                                                  w \in Workbooks }

\* Either variant over files that are present (composed names, version 1)
\* or absent.
DeployInit ==
    /\ RunInit
    /\ variant \in {"strict", "fallback"}
    /\ disk \in [SchoolSet(variant) -> {Missing, CsvFile("nfc", 1)}]
    /\ xlsx \in IF variant = "strict"
                THEN {Missing,
                      Workbook("nfc", [sh \in SchoolSet("strict") |-> 1])}
                ELSE {Missing}

\* The inputs of the merge model: dicts over some of these schools, growth
\* tables of up to MaxRows measured plants (weights 1, 2, ...), environment
\* tables of up to MaxSamples ec samples of 1.00 or 1.01.
MergeKeys == {"Dongsan", "Songdo"}
EcValues == {100, 101}
GrowthTable(n) == DataFrame(<<"weight">>, [i \in 1 .. n |-> ("weight" :> i)])
EnvTable(series) ==
    DataFrame(<<"ec">>, [i \in 1 .. Len(series) |-> ("ec" :> series[i])])
GrowthTables == { GrowthTable(n) : n \in 0 .. MaxRows }
EnvTables ==
    { EnvTable(series) :
        series \in UNION { [1 .. n -> EcValues] : n \in 0 .. MaxSamples } }

\* merge_growth about to be called on any two such dicts.
MergeInit ==
    /\ pc = "merge_growth"
    /\ growth_data \in UNION { [S -> GrowthTables] : S \in SUBSET MergeKeys }
    /\ env_data \in UNION { [S -> EnvTables] : S \in SUBSET MergeKeys }
    /\ env_all = Unset
    /\ growth_all = Unset
    /\ summary = Unset
    /\ total = 0
    /\ exc = "none"

RunIdle ==
    /\ pc = "idle"
    /\ env_data = Unset
    /\ growth_data = Unset
    /\ env_all = Unset
    /\ growth_all = Unset
    /\ summary = Unset
    /\ total = 0
    /\ exc = "none"

(***************************************************************************)
(* Specifications.                                                         *)
(***************************************************************************)
\* The simulation: the three sliders moved at will.
InitScore == ScoreInit /\ FindIdle /\ RunIdle /\ ProcIdle
NextScore == MoveHumidity \/ MoveEc \/ MovePh
SpecScore == InitScore /\ [][NextScore]_vars

\* find_file over a directory that fills up.
InitFind == FindInit /\ ScoreInit /\ RunIdle /\ ProcIdle
NextFind == CreateFile \/ Lookup
SpecFind == InitFind /\ [][NextFind]_vars

\* merge_growth and the summary on arbitrary dicts.
InitMerge == MergeInit /\ ScoreInit /\ FindIdle /\ ProcIdle
NextMerge == MergeGrowth \/ Summary
SpecMerge == InitMerge /\ [][NextMerge]_vars

\* One run of the strict script in a fresh process.
InitStrict == StrictInit /\ ScoreInit /\ FindIdle
NextStrict == LoadEnv \/ LoadGrowth \/ MergeEnv \/ MergeGrowth \/ Summary
SpecStrict == InitStrict /\ [][NextStrict]_vars

\* Executions of either script in fresh processes, over files that stay as
\* they are.
InitRuns == DeployInit /\ ScoreInit /\ FindIdle
NextRuns ==
    \/ LoadEnvFallback \/ Plot
    \/ LoadEnv \/ LoadGrowth \/ MergeEnv \/ MergeGrowth \/ Summary
    \/ Restart
SpecRuns == InitRuns /\ [][NextRuns]_vars

\* Reruns of either script in one process, over files that change.
InitCache == DeployInit /\ ScoreInit /\ FindIdle
NextCache ==
    \/ LoadEnvFallback \/ Plot
    \/ LoadEnv \/ LoadGrowth \/ MergeEnv \/ MergeGrowth \/ Summary
    \/ Rerun \/ ChangeFile
SpecCache == InitCache /\ [][NextCache]_vars

(***************************************************************************)
(* Properties.                                                             *)
(***************************************************************************)
\* C1: for every slider-valid input the growth index lies in [0, 100]
\* (0 .. 1000 tenths).
C1_ScoreBounded ==
    /\ humidity \in humidity_min .. humidity_max
    /\ ec \in ec_min .. ec_max
    /\ ph \in ph_min .. ph_max
    /\ 0 <= growth_index
    /\ growth_index <= score_top * Scale

\* C1 witness: a setting whose raw score is negative (humidity 0, EC 5.0,
\* pH 8.0: 100 - 48 - 60 - 30), shown as 0.
C1_Witness ==
    /\ humidity = humidity_min /\ ec = ec_max /\ ph = ph_max
    /\ growth_index = 0

\* The reference of C2, written out by cases instead of with abs, max and
\* min: the distance of each value from its ideal, weighted, taken from 100
\* and cut to [0, 100].
ReferencePenalty(h, e, p) ==
    (IF h >= 60 THEN (h - 60) * 8 ELSE (60 - h) * 8)
  + (IF e >= 20 THEN (e - 20) * 20 ELSE (20 - e) * 20)
  + (IF p >= 60 THEN (p - 60) * 15 ELSE (60 - p) * 15)
ReferenceScore(h, e, p) ==
    IF ReferencePenalty(h, e, p) >= 1000 THEN 0
    ELSE 1000 - ReferencePenalty(h, e, p)

\* C2: the index shown equals the reference clamp(100 - |h-60|*0.8 -
\* |ec-2.0|*20 - |ph-6.0|*15) for every slider setting, and is exactly 100
\* at (60, 2.0, 6.0).
C2_ScoreMatchesReference ==
    /\ growth_index = ReferenceScore(humidity, ec, ph)
    /\ (humidity = 60 /\ ec = 20 /\ ph = 60) => growth_index = 1000

\* C2 witness: an off-ideal setting with a score strictly inside (0, 100):
\* humidity 70, EC 1.5, pH 6.5 scores 100 - 8 - 10 - 7.5 = 74.5.
C2_Witness ==
    /\ humidity = 70 /\ ec = 15 /\ ph = 65
    /\ growth_index = 745

\* The schools present in both dicts, in iteration order.
CommonSchools ==
    SelectSeq(KeyOrder,
              LAMBDA k : k \in DOMAIN growth_data /\ k \in DOMAIN env_data)
MergeReturned == pc \in {"summary", "done"}

SchoolMean(j) == mean(Column(env_data[growth_all.rows[j]["school"]], "ec"))

C5_NoCommonSchoolsError ==
    (pc # "merge_growth" /\ CommonSchools = <<>>) =>
        /\ pc = "crashed"
        /\ exc = "NoCommonSchools"
        /\ growth_all = Unset

\* C10: the call of merge_growth leaves growth_data and env_data as they
\* were, whether it returns or raises.
C10_MergeLeavesInputsUnchanged ==
    [][pc = "merge_growth" =>
          (growth_data' = growth_data /\ env_data' = env_data)]_vars

\* C10 witness: the merge has returned a table with the school and EC
\* columns, the summary has run, and the growth table behind it still has
\* its one column and its rows.
C10_Witness ==
    /\ pc = "done"
    /\ growth_all.cols = <<"weight", "school", "EC">>
    /\ "Dongsan" \in DOMAIN growth_data
    /\ growth_data["Dongsan"] = GrowthTable(2)
    /\ summary[1].count = 2
    /\ total = 2

\* The schools of line 173 with no environment file in the data directory,
\* and the first of them in the order of the loop.
MissingEnvSchools == { sch \in SchoolSet("strict") : ~ disk[sch].present }
FirstMissing ==
    StrictSchools[CHOOSE i \in 1 .. Len(StrictSchools) :
        /\ StrictSchools[i] \in MissingEnvSchools
        /\ \A j \in 1 .. (i - 1) : StrictSchools[j] \notin MissingEnvSchools]

\* C6: when a school's environment file is not there, load_env_data
\* reports that school and the run halts at once: no mapping is returned
\* or cached, and load_growth_data, merge_env, merge_growth and the summary
\* are never executed.
C6_StrictLoaderHalts ==
    (pc # "load_env" /\ MissingEnvSchools # {}) =>
        /\ pc = "stopped"
        /\ errors = << <<"env", FirstMissing>> >>
        /\ env_data = Unset
        /\ cache = EmptyCache
        /\ growth_data = Unset
        /\ env_all = Unset
        /\ growth_all = Unset
        /\ summary = Unset

\* C6 witness: the first two files are found (one under a decomposed name)
\* and read, the third is missing and reported, and the run has stopped.
C6_Witness ==
    /\ pc = "stopped"
    /\ disk["Dongsan"] = CsvFile("nfd", 1)
    /\ disk["Songdo"] = CsvFile("nfc", 1)
    /\ ~ disk["Ara"].present
    /\ storage_reads = {"Dongsan", "Songdo"}
    /\ errors = << <<"env", "Ara">> >>

\* C7: two executions of load_env_data from an empty cache against the same
\* files return equal tables for every school.
C7_LoadDeterministic ==
    (env_data # Unset /\ prev_env # Unset) => env_data = prev_env

\* What a loader that reads the files at the time of the call returns for a
\* school: the table of the file as it is now, or (fallback variant, no
\* such file) some dummy table.
ReflectsFile(table, school) ==
    IF variant = "strict"
    THEN /\ disk[school].present
         /\ table = setitem(read_csv(disk[school]), "school", school)
    ELSE IF disk[school].present
         THEN table = read_csv_fallback(disk[school])
         ELSE \E draw \in Draws : table = dummy_table(draw)
ReflectsWorkbook(dict) ==
    /\ xlsx.present
    /\ dict = [sh \in DOMAIN xlsx.sheets |-> read_excel(xlsx.sheets[sh])]

EnvLoadReturns == pc = "load_env" /\ pc' \in {"load_growth", "plot"}
GrowthLoadReturns == pc = "load_growth" /\ pc' = "merge_env"

\* C9 as stated: whatever a call of a memoized loader returns reflects the
\* files as they are at the time of the call.
C9_LoadReflectsFilesAtCall ==
    [][/\ EnvLoadReturns =>
            \A sch \in SchoolSet(variant) : ReflectsFile(env_data'[sch], sch)
       /\ GrowthLoadReturns => ReflectsWorkbook(growth_data')]_vars

\* C9 amended: a call of a memoized loader whose result is cached returns
\* the cached result and reads no file, whatever has become of the files;
\* a call with nothing cached reads the files, and what it returns reflects
\* them and is cached.
C9_CachedLoadIgnoresFiles ==
    [][/\ (EnvLoadReturns /\ cache.env # Unset) =>
            /\ env_data' = cache.env
            /\ storage_reads' = storage_reads
            /\ cache' = cache
       /\ (EnvLoadReturns /\ cache.env = Unset) =>
            /\ \A sch \in SchoolSet(variant) : ReflectsFile(env_data'[sch], sch)
            /\ cache'.env = env_data'
       /\ (pc = "load_env" /\ cache.env # Unset) => (pc' # "stopped")
       /\ (GrowthLoadReturns /\ cache.growth # Unset) =>
            /\ growth_data' = cache.growth
            /\ storage_reads' = storage_reads
            /\ cache' = cache
       /\ (GrowthLoadReturns /\ cache.growth = Unset) =>
            /\ ReflectsWorkbook(growth_data')
            /\ cache'.growth = growth_data']_vars

\* C9 witness: a rerun after a school's CSV was rewritten has got the
\* cached table of the old version back, having read no file.
C9_Witness ==
    /\ variant = "strict"
    /\ pc = "load_growth"
    /\ changes > 0
    /\ disk["Dongsan"] = CsvFile("nfc", 2)
    /\ env_data = cache.env
    /\ env_data["Dongsan"] =
          setitem(read_csv(CsvFile("nfc", 1)), "school", "Dongsan")
    /\ storage_reads = {}

CanonicallyEquivalent(a, b) == NFD(a) = NFD(b)

====
